---- MODULE Spec2Model ----
(***************************************************************************)
(* Model of the multi-backend database client core (src-tauri/src).        *)
(*                                                                         *)
(* Spec       : the command surface of main.rs over the connection         *)
(*              registry, a HashMap behind one tokio Mutex.  Every await   *)
(*              is a point where other calls may run.                      *)
(* SpecDriver : the result construction of the three drivers (database.rs, *)
(*              mongodb.rs, redis.rs) over bounded backend contents.       *)
(***************************************************************************)
EXTENDS Integers, Sequences, FiniteSets, TLC

\* ------------------------------------------------------------------ bounds
NumIds == 2
NumCallers == 2
MaxCalls == 3

Ids == 1..NumIds
Callers == 1..NumCallers

\* ------------------------------------------------------------ registry state
VARIABLES connections, lock, pc, call, opened, history

regVars == <<connections, lock, pc, call, opened, history>>

\* main.rs:18-22  enum DbConnection
Variants == {"Sql", "Mongo", "Redis"}

\* the connection.type strings the callers pass; "oracle" stands for a kind
\* no arm of the match at main.rs:86 names
DbTypes == {"sqlite", "mongodb", "redis", "oracle"}

\* main.rs:86-103  the arms of the match on connection.type
ConnVariant(t) ==
    IF t \in {"sqlite", "postgresql", "mysql", "mariadb"} THEN "Sql"
    ELSE IF t = "mongodb" THEN "Mongo"
    ELSE IF t = "redis" THEN "Redis"
    ELSE "Unsupported"

NoConn == [cid |-> 0, variant |-> "None"]
NoHolder == 0

Commands == {"execute_query", "get_schema", "execute_ddl"}
Removers == {"disconnect_database", "delete_connection"}
Ops == {"connect_database"} \cup Removers \cup Commands

NoCall == [op |-> "none", id |-> 0, dbtype |-> "none", inv |-> 0,
           conn |-> NoConn, method |-> "none"]

\* main.rs:136-152, 179-186, 202-222  the driver method each variant's arm calls
Dispatch(variant, op) ==
    CASE variant = "Sql" ->
           (CASE op = "execute_query" -> "DatabaseConnection::execute_query"
              [] op = "get_schema" -> "DatabaseConnection::get_schema"
              [] OTHER -> "DatabaseConnection::execute_ddl")
      [] variant = "Mongo" ->
           (CASE op = "get_schema" -> "MongoConnection::get_collections"
              [] OTHER -> "MongoConnection::execute_mql")
      [] OTHER ->
           (CASE op = "get_schema" -> "RedisConnection::get_info"
              [] OTHER -> "RedisConnection::execute_redis_cmd")

\* calls that have been invoked and have not returned
InProgress == {p \in Callers : pc[p] # "idle"}

\* the identifiers some call has named so far
NamedIds ==
    {call[p].id : p \in InProgress} \cup {history[k].id : k \in 1..Len(history)}

\* main.rs:231-233  AppState { connections: Arc::new(Mutex::new(HashMap::new())) }
InitRegistry ==
    /\ connections = [i \in Ids |-> NoConn]
    /\ lock = NoHolder
    /\ pc = [p \in Callers |-> "idle"]
    /\ call = [p \in Callers |-> NoCall]
    /\ opened = 0
    /\ history = <<>>

\* the call of p returns res to its caller: one record of the history
Returned(p, res, c) ==
    /\ history' = Append(history,
           [op |-> call[p].op, id |-> call[p].id, res |-> res, conn |-> c,
            inv |-> call[p].inv])
    /\ pc' = [pc EXCEPT ![p] = "idle"]
    /\ call' = [call EXCEPT ![p] = NoCall]

\* the frontend invokes a command (main.rs:234-244 invoke_handler)
Invoke(p, op, id, t) ==
    /\ pc[p] = "idle"
    /\ \A q \in Callers : q < p => pc[q] # "idle"
    /\ id <= 1 + Cardinality(NamedIds)
    /\ Len(history) + Cardinality(InProgress) < MaxCalls
    /\ call' = [call EXCEPT ![p] =
           [op |-> op, id |-> id, dbtype |-> t, inv |-> Len(history),
            conn |-> NoConn, method |-> "none"]]
    /\ pc' = [pc EXCEPT ![p] = IF op = "connect_database" THEN "match" ELSE "lock"]
    /\ UNCHANGED <<connections, lock, opened, history>>

\* main.rs:102  _ => return Err("Unsupported database type")
ConnectUnsupported(p) ==
    /\ pc[p] = "match"
    /\ ConnVariant(call[p].dbtype) = "Unsupported"
    /\ Returned(p, "UnsupportedBackend", 0)
    /\ UNCHANGED <<connections, lock, opened>>

\* a failed connect that evicts the entry registered under the identifier
ConnectFailEvicts(p) ==
    /\ pc[p] = "match"
    /\ ConnVariant(call[p].dbtype) \in Variants
    /\ connections' = [connections EXCEPT ![call[p].id] = NoConn]
    /\ Returned(p, "ConnectFailure", 0)
    /\ UNCHANGED <<lock, opened>>

\* main.rs:88-89, 93-94, 98-99  XConnection::new(..).await fails: map_err(..)?
ConnectFail(p) ==
    /\ pc[p] = "match"
    /\ ConnVariant(call[p].dbtype) \in Variants
    /\ Returned(p, "ConnectFailure", 0)
    /\ UNCHANGED <<connections, lock, opened>>

\* main.rs:86-103  XConnection::new(..).await succeeds: conn holds the new value
ConnectOpen(p) ==
    /\ pc[p] = "match"
    /\ ConnVariant(call[p].dbtype) \in Variants
    /\ call' = [call EXCEPT ![p].conn =
           [cid |-> opened + 1, variant |-> ConnVariant(call[p].dbtype)]]
    /\ opened' = opened + 1
    /\ pc' = [pc EXCEPT ![p] = "lock"]
    /\ UNCHANGED <<connections, lock, history>>

\* a lock that excludes nobody
CanAcquireAlways(p) == TRUE

\* tokio Mutex: lock().await completes only while no guard is alive
CanAcquire(p) == lock = NoHolder

\* an insert that keeps an entry already present (entry().or_insert)
MapInsertKeepOld(reg, id, c) ==
    IF reg[id] = NoConn THEN [reg EXCEPT ![id] = c] ELSE reg

\* HashMap::insert: the value stored under id is replaced
MapInsert(reg, id, c) == [reg EXCEPT ![id] = c]

\* a remove that leaves the map as it is
MapRemoveNothing(reg, id) == reg

\* HashMap::remove: no entry under id afterwards, absent or not
MapRemove(reg, id) == [reg EXCEPT ![id] = NoConn]

\* main.rs:105-108  lock().await; connections.insert(id, conn); Ok(())
\* No await separates the lock from the return, where the guard drops.
ConnectInsert(p) ==
    /\ pc[p] = "lock"
    /\ call[p].op = "connect_database"
    /\ CanAcquire(p)
    /\ connections' = MapInsert(connections, call[p].id, call[p].conn)
    /\ lock' = NoHolder
    /\ Returned(p, "Ok", call[p].conn.cid)
    /\ UNCHANGED opened

\* a disconnect that reports an absent entry as an error
RemoveStrict(p) ==
    /\ pc[p] = "lock"
    /\ call[p].op \in Removers
    /\ CanAcquire(p)
    /\ connections' = MapRemove(connections, call[p].id)
    /\ lock' = NoHolder
    /\ Returned(p, IF connections[call[p].id] = NoConn THEN "NotConnected" ELSE "Ok", 0)
    /\ UNCHANGED opened

\* main.rs:63-68, 116-118  lock().await; connections.remove(&id); Ok(())
Remove(p) ==
    /\ pc[p] = "lock"
    /\ call[p].op \in Removers
    /\ CanAcquire(p)
    /\ connections' = MapRemove(connections, call[p].id)
    /\ lock' = NoHolder
    /\ Returned(p, "Ok", 0)
    /\ UNCHANGED opened

\* a lookup that answers a missing entry with an empty success
GetMissingOk(p) ==
    /\ pc[p] = "lock"
    /\ call[p].op \in Commands
    /\ CanAcquire(p)
    /\ connections[call[p].id] = NoConn
    /\ lock' = NoHolder
    /\ Returned(p, "Ok", 0)
    /\ UNCHANGED <<connections, opened>>

\* main.rs:131-132, 176-177, 197-198  lock().await;
\* get_mut(&id).ok_or("Not connected")? : no entry, the guard drops
GetMissing(p) ==
    /\ pc[p] = "lock"
    /\ call[p].op \in Commands
    /\ CanAcquire(p)
    /\ connections[call[p].id] = NoConn
    /\ lock' = NoHolder
    /\ Returned(p, "NotConnected", 0)
    /\ UNCHANGED <<connections, opened>>

\* a guard dropped before the driver call is awaited
GuardInDriverDropped(p) == NoHolder

\* the guard while the driver call is awaited: it is alive until the block
\* (main.rs:153) or the function (main.rs:187, 226) ends
GuardInDriver(p) == p

\* main.rs:131-152, 176-186, 197-222  lock().await; the entry is borrowed and
\* its driver method is called and awaited
GetFound(p) ==
    /\ pc[p] = "lock"
    /\ call[p].op \in Commands
    /\ CanAcquire(p)
    /\ connections[call[p].id] # NoConn
    /\ call' = [call EXCEPT ![p].conn = connections[call[p].id],
                            ![p].method = Dispatch(connections[call[p].id].variant,
                                                   call[p].op)]
    /\ pc' = [pc EXCEPT ![p] = "driver"]
    /\ lock' = GuardInDriver(p)
    /\ UNCHANGED <<connections, opened, history>>

\* a guard that outlives the call that owns it
ReleaseNever(p) == lock

\* the guard is dropped by the call that owns it
Release(p) == IF lock = p THEN NoHolder ELSE lock

\* a failed command that closes the connection it ran on
DriverErrTearsDown(p) ==
    /\ pc[p] = "driver"
    /\ lock' = Release(p)
    /\ connections' = [connections EXCEPT ![call[p].id] = NoConn]
    /\ Returned(p, "ExecutionFailure", call[p].conn.cid)
    /\ UNCHANGED opened

\* main.rs:138-151, 181-185, 204-220  the driver returns Err: map_err(..)?
DriverErr(p) ==
    /\ pc[p] = "driver"
    /\ lock' = Release(p)
    /\ Returned(p, "ExecutionFailure", call[p].conn.cid)
    /\ UNCHANGED <<connections, opened>>

\* main.rs:137-153  execute_query: the driver returns Ok, the block ends
DriverOkQuery(p) ==
    /\ pc[p] = "driver"
    /\ call[p].op = "execute_query"
    /\ lock' = Release(p)
    /\ pc' = [pc EXCEPT ![p] = "result"]
    /\ UNCHANGED <<connections, call, opened, history>>

\* main.rs:155-168  execute_query builds the QueryResult without the guard
QueryResult(p) ==
    /\ pc[p] = "result"
    /\ Returned(p, "Ok", call[p].conn.cid)
    /\ UNCHANGED <<connections, lock, opened>>

\* main.rs:180-186, 203-225  get_schema, execute_ddl: the driver returns Ok
DriverOk(p) ==
    /\ pc[p] = "driver"
    /\ call[p].op \in {"get_schema", "execute_ddl"}
    /\ lock' = Release(p)
    /\ Returned(p, "Ok", call[p].conn.cid)
    /\ UNCHANGED <<connections, opened>>

\* ------------------------------------------------------------ driver state
\* One driver call: the method, the text it is given, what the backend holds
\* or replies, and the QueryRow under construction.
VARIABLES method, command, backend, sent, dpc, cursor, columns, types, rows,
          outcome

\* list_keys: the key_infos vector under construction, and the TTL replies
\* the store gave, one per entry
VARIABLES key_infos, ttls

keyVars == <<key_infos, ttls>>

drvVars ==
    <<method, command, backend, sent, dpc, cursor, columns, types, rows, outcome,
      keyVars>>

vars == <<regVars, drvVars>>

\* bounds of the backend contents
MaxDocs == 2
MaxFields == 2
MaxRows == 2
MaxCols == 2
MaxElems == 2
MaxKeys == 2

\* what the backend holds or replies: the documents, rows or elements, the
\* key's type tag and the kind of a command's reply
Backend(items, key_type, reply) ==
    [items |-> items, key_type |-> key_type, reply |-> reply]

\* ------------------------------------------------------------- text helpers
\* str::starts_with
StartsWith(s, pre) == Len(s) >= Len(pre) /\ SubSeq(s, 1, Len(pre)) = pre

\* str::ends_with
EndsWith(s, suf) ==
    Len(s) >= Len(suf) /\ SubSeq(s, Len(s) - Len(suf) + 1, Len(s)) = suf

\* the position of the first ch in s, 0 when there is none
IndexOf(s, ch) ==
    IF \E i \in 1..Len(s) : SubSeq(s, i, i) = ch
    THEN CHOOSE i \in 1..Len(s) :
            /\ SubSeq(s, i, i) = ch
            /\ \A j \in 1..(i - 1) : SubSeq(s, j, j) # ch
    ELSE 0

\* the text split at its last "."
SplitAtLastDot(s) ==
    IF \A i \in 1..Len(s) : SubSeq(s, i, i) # "." THEN <<s>>
    ELSE LET i == CHOOSE k \in 1..Len(s) :
                     /\ SubSeq(s, k, k) = "."
                     /\ \A j \in (k + 1)..Len(s) : SubSeq(s, j, j) # "."
         IN  <<SubSeq(s, 1, i - 1), SubSeq(s, i + 1, Len(s))>>

\* str::splitn(2, '.') collected
SplitN2(s) ==
    LET i == IndexOf(s, ".")
    IN  IF i = 0 THEN <<s>>
        ELSE <<SubSeq(s, 1, i - 1), SubSeq(s, i + 1, Len(s))>>

RECURSIVE TrimStart(_)
\* str::trim_start
TrimStart(s) ==
    IF StartsWith(s, " ") THEN TrimStart(SubSeq(s, 2, Len(s))) ELSE s

RECURSIVE TrimStartMatches(_, _)
\* str::trim_start_matches: every repetition of the prefix is removed
TrimStartMatches(s, pre) ==
    IF StartsWith(s, pre)
    THEN TrimStartMatches(SubSeq(s, Len(pre) + 1, Len(s)), pre)
    ELSE s

RECURSIVE TrimEndMatches(_, _)
\* str::trim_end_matches: every repetition of the suffix is removed
TrimEndMatches(s, suf) ==
    IF EndsWith(s, suf)
    THEN TrimEndMatches(SubSeq(s, 1, Len(s) - Len(suf)), suf)
    ELSE s

\* Vec::contains
Contains(seq, x) == \E i \in 1..Len(seq) : seq[i] = x

\* ---------------------------------------------------------- generic values
JNull == [j |-> "Null"]
JBool(b) == [j |-> "Bool", b |-> b]
JNumber(n) == [j |-> "Number", n |-> n]
JString(t) == [j |-> "String", s |-> t]
\* a Number made by Number::from_f64
JFloat(x) == [j |-> "Number", f |-> x]
JArray(items) == [j |-> "Array", a |-> items]
JObject(pairs) == [j |-> "Object", o |-> pairs]

\* ------------------------------------------------------------------ mongodb
\* BSON values a stored document holds
BsonValues ==
    {[b |-> "Int32", n |-> 1], [b |-> "String", s |-> "x"], [b |-> "Null"]}

DocKeys == {"a", "b"}

\* the field lists (key, value), in document order, of at most n fields
RECURSIVE FieldLists(_)
FieldLists(n) ==
    IF n = 0 THEN {<<>>}
    ELSE LET shorter == FieldLists(n - 1)
         IN  shorter \cup
             {Append(f, <<k, v>>) :
                 f \in {g \in shorter : Len(g) = n - 1},
                 k \in DocKeys, v \in BsonValues}

\* stored documents: _id first, then fields of distinct keys; one document
\* whose _id is no ObjectId
Documents ==
    {<<<<"_id", [b |-> "ObjectId", hex |-> "65f0"]>>>> \o f :
        f \in {g \in FieldLists(MaxFields) :
                 \A x \in 1..Len(g) : \A y \in 1..Len(g) :
                     g[x][1] = g[y][1] => x = y}}
    \cup {<<<<"_id", [b |-> "String", s |-> "k1"]>>, <<"a", [b |-> "Int32", n |-> 1]>>>>}

\* the sequences over S of length at most n
RECURSIVE SeqsUpTo(_, _)
SeqsUpTo(S, n) ==
    IF n = 0 THEN {<<>>}
    ELSE LET shorter == SeqsUpTo(S, n - 1)
         IN  shorter \cup
             {Append(q, x) : q \in {r \in shorter : Len(r) = n - 1}, x \in S}

RECURSIVE ConvertBsonValue(_)
RECURSIVE ConvertBsonToJson(_)

\* mongodb.rs:156-171  convert_bson_value; a Double that is not finite has no
\* Number and becomes Null, a kind without an arm its debug text
ConvertBsonValue(v) ==
    CASE v.b = "Null" -> JNull
      [] v.b = "Boolean" -> JBool(v.t)
      [] v.b \in {"Int32", "Int64"} -> JNumber(v.n)
      [] v.b = "Double" -> IF v.finite THEN JFloat(v.n) ELSE JNull
      [] v.b = "String" -> JString(v.s)
      [] v.b = "Array" -> JArray([i \in 1..Len(v.items) |-> ConvertBsonValue(v.items[i])])
      [] v.b = "Document" -> JObject(ConvertBsonToJson(v.doc))
      [] v.b = "ObjectId" -> JString(v.hex)
      [] OTHER -> JString(v.b \o "(..)")

\* mongodb.rs:148-154  convert_bson_to_json: the object's (key, value) pairs in
\* the document's order
ConvertBsonToJson(doc) ==
    [i \in 1..Len(doc) |-> <<doc[i][1], ConvertBsonValue(doc[i][2])>>]

\* serde_json::Map::get
ObjGet(obj, key) ==
    IF \E i \in 1..Len(obj) : obj[i][1] = key
    THEN (CHOOSE p \in {obj[i] : i \in 1..Len(obj)} : p[1] = key)[2]
    ELSE JNull

\* mongodb.rs:173-186  mongo_type_to_string
MongoTypeToString(v) ==
    CASE v.j = "Null" -> "Null"
      [] v.j = "Bool" -> "Boolean"
      [] v.j = "Number" -> IF "f" \in DOMAIN v THEN "Double" ELSE "Int64"
      [] v.j = "String" -> "String"
      [] v.j = "Array" -> "Array"
      [] OTHER -> "Document"

\* mongodb.rs:65-67  doc.get_object_id("_id").map(to_hex).unwrap_or("unknown")
DocIdText(doc) ==
    IF \E i \in 1..Len(doc) : doc[i][1] = "_id" /\ doc[i][2].b = "ObjectId"
    THEN (CHOOSE p \in {doc[i] : i \in 1..Len(doc)} : p[1] = "_id")[2].hex
    ELSE "unknown"

RECURSIVE AccreteNoContains(_, _, _)
\* Accrete without the columns.contains(key) test
AccreteNoContains(cols, obj, k) ==
    IF k > Len(obj) THEN cols
    ELSE IF obj[k][1] = "_id"
    THEN AccreteNoContains(cols, obj, k + 1)
    ELSE AccreteNoContains(
             [names |-> Append(cols.names, obj[k][1]),
              types |-> Append(cols.types, MongoTypeToString(obj[k][2]))],
             obj, k + 1)

RECURSIVE Accrete(_, _, _)
\* mongodb.rs:71-79  the keys of obj not yet in cols are appended, in the
\* object's order, each with the type of its value; k is the position in obj
Accrete(cols, obj, k) ==
    IF k > Len(obj) THEN cols
    ELSE IF obj[k][1] = "_id" \/ Contains(cols.names, obj[k][1])
    THEN Accrete(cols, obj, k + 1)
    ELSE Accrete([names |-> Append(cols.names, obj[k][1]),
                  types |-> Append(cols.types, MongoTypeToString(obj[k][2]))],
                 obj, k + 1)

\* mongodb.rs:81-88  one value per column known so far
RowValues(names, id, obj) ==
    [c \in 1..Len(names) |->
        IF names[c] = "_id" THEN JString(id) ELSE ObjGet(obj, names[c])]

\* the command texts given to execute_mql
MqlTexts ==
    {"users.find({})", "users.find()", "users. find({\"a\":1})",
     "users.find({a)", "users.count()", "users", "users.drop()",
     "db.users.count()"}

\* serde_json::from_str::<Document>: the filter texts that parse
JsonDocuments == {"{}", "{\"a\":1}"}

\* mongodb.rs:36-45  splitn(2, '.'); parts[1].trim_start()
MqlCommand(mql) == TrimStart(SplitN2(mql)[2])

\* mongodb.rs:50  trim_start_matches("find(").trim_end_matches(')')
FilterStr(cmd) == TrimEndMatches(TrimStartMatches(cmd, "find("), ")")

\* mongodb.rs:51-55  the empty text and "{}" both give the empty document
FilterDoc(filter_str) ==
    IF filter_str = "" \/ filter_str = "{}" THEN "{}" ELSE filter_str

\* the driver method returns
Finish(res) ==
    /\ outcome' = res
    /\ dpc' = "done"

\* mongodb.rs:36-42  no "." in the text
MqlInvalid ==
    /\ method = "execute_mql" /\ dpc = "start"
    /\ Len(SplitN2(command)) < 2
    /\ Finish("InvalidFormat")
    /\ UNCHANGED <<method, command, backend, sent, cursor, columns, types, rows>>

\* mongodb.rs:105-110  neither find( nor count()
MqlUnsupported ==
    /\ method = "execute_mql" /\ dpc = "start"
    /\ Len(SplitN2(command)) = 2
    /\ ~StartsWith(MqlCommand(command), "find(")
    /\ ~StartsWith(MqlCommand(command), "count()")
    /\ Finish("Unsupported")
    /\ UNCHANGED <<method, command, backend, sent, cursor, columns, types, rows>>

\* mongodb.rs:49-55  find(: the filter text does not parse
FindBadFilter ==
    /\ method = "execute_mql" /\ dpc = "start"
    /\ Len(SplitN2(command)) = 2
    /\ StartsWith(MqlCommand(command), "find(")
    /\ FilterStr(MqlCommand(command)) # ""
    /\ FilterStr(MqlCommand(command)) \notin JsonDocuments
    /\ Finish("ParseError")
    /\ UNCHANGED <<method, command, backend, sent, cursor, columns, types, rows>>

\* mongodb.rs:49-61  find(: coll.find(filter).await opens the cursor, or fails
FindOpen ==
    /\ method = "execute_mql" /\ dpc = "start"
    /\ Len(SplitN2(command)) = 2
    /\ StartsWith(MqlCommand(command), "find(")
    /\ FilterStr(MqlCommand(command)) \in JsonDocuments \cup {""}
    /\ sent' = Append(sent, <<"find", FilterDoc(FilterStr(MqlCommand(command)))>>)
    /\ \/ /\ cursor' = backend.items
          /\ columns' = <<"_id">>
          /\ types' = <<"ObjectId">>
          /\ rows' = <<>>
          /\ dpc' = "find"
          /\ UNCHANGED outcome
       \/ /\ Finish("ExecutionFailure")
          /\ UNCHANGED <<cursor, columns, types, rows>>
    /\ UNCHANGED <<method, command, backend>>

\* mongodb.rs:63-90  one turn of while let Some(doc) = cursor.try_next().await?
FindNext ==
    /\ dpc = "find"
    /\ cursor # <<>>
    /\ LET doc == Head(cursor)
           data == ConvertBsonToJson(doc)
           cols == Accrete([names |-> columns, types |-> types], data, 1)
       IN  /\ columns' = cols.names
           /\ types' = cols.types
           /\ rows' = Append(rows, RowValues(cols.names, DocIdText(doc), data))
    /\ cursor' = Tail(cursor)
    /\ UNCHANGED <<method, command, backend, sent, dpc, outcome>>

\* mongodb.rs:63  cursor.try_next().await? fails
FindCursorErr ==
    /\ dpc = "find"
    /\ cursor # <<>>
    /\ Finish("ExecutionFailure")
    /\ UNCHANGED <<method, command, backend, sent, cursor, columns, types, rows>>

\* mongodb.rs:92-96  the cursor is exhausted: Ok(QueryRow {columns, types, rows})
FindDone ==
    /\ dpc = "find"
    /\ cursor = <<>>
    /\ Finish("Ok")
    /\ UNCHANGED <<method, command, backend, sent, cursor, columns, types, rows>>

\* mongodb.rs:97-104  count(): count_documents(..).await, one row or the error
Count ==
    /\ method = "execute_mql" /\ dpc = "start"
    /\ Len(SplitN2(command)) = 2
    /\ ~StartsWith(MqlCommand(command), "find(")
    /\ StartsWith(MqlCommand(command), "count()")
    /\ sent' = Append(sent, <<"count_documents", "{}">>)
    /\ \/ /\ columns' = <<"count">>
          /\ types' = <<"Int64">>
          /\ rows' = <<<<JNumber(Len(backend.items))>>>>
          /\ Finish("Ok")
       \/ /\ Finish("ExecutionFailure")
          /\ UNCHANGED <<columns, types, rows>>
    /\ UNCHANGED <<method, command, backend, cursor>>

\* ----------------------------------------------------------------- database
\* the cells sqlx hands back: the column's type name, the kind of the value
\* stored, and the value
SqlCells ==
    {[type_name |-> "INTEGER", kind |-> "Integer", n |-> 7, s |-> "", finite |-> TRUE],
     [type_name |-> "TEXT", kind |-> "Text", n |-> 0, s |-> "ann", finite |-> TRUE],
     [type_name |-> "INTEGER", kind |-> "Null", n |-> 0, s |-> "", finite |-> TRUE]}

\* the rows of w cells
RECURSIVE SqlRowsOfWidth(_)
SqlRowsOfWidth(w) ==
    IF w = 0 THEN {<<>>}
    ELSE {Append(r, c) : r \in SqlRowsOfWidth(w - 1), c \in SqlCells}

\* sqlx Row::try_get::<T>: the kinds of value that decode as T
Decodes(cell, T) ==
    CASE T = "bool" -> cell.kind = "Bool"
      [] T \in {"i32", "i64"} -> cell.kind \in {"SmallInt", "Integer", "BigInt"}
      [] T = "f64" -> cell.kind \in {"Real", "Double"}
      [] T = "String" -> cell.kind = "Text"
      [] OTHER -> FALSE

\* sqlx Row::try_get::<Option<i32>>: NULL decodes as None
DecodesOptionI32(cell) == cell.kind = "Null" \/ Decodes(cell, "i32")

\* format!("{:?}", type_info)
TypeDebug(type_name) == "AnyTypeInfo(" \o type_name \o ")"

\* database.rs:4-50  convert_to_json_value
ConvertToJsonValue(cell) ==
    IF ~DecodesOptionI32(cell) THEN JNull
    ELSE CASE cell.type_name \in {"BOOLEAN", "BOOL"} /\ Decodes(cell, "bool") ->
                JBool(cell.n # 0)
           [] /\ cell.type_name \in {"TINYINT", "SMALLINT", "INT", "INTEGER"}
              /\ Decodes(cell, "i32") -> JNumber(cell.n)
           [] cell.type_name = "BIGINT" /\ Decodes(cell, "i64") -> JNumber(cell.n)
           [] /\ cell.type_name \in {"REAL", "FLOAT", "DOUBLE", "DECIMAL", "NUMERIC"}
              /\ Decodes(cell, "f64") /\ cell.finite -> JFloat(cell.n)
           [] /\ cell.type_name \in {"TEXT", "VARCHAR", "CHAR", "STRING", "NAME"}
              /\ Decodes(cell, "String") -> JString(cell.s)
           [] OTHER ->
                IF Decodes(cell, "String") THEN JString(cell.s)
                ELSE JString(TypeDebug(cell.type_name))

\* column.name of the i-th column
ColumnName(i) == IF i = 1 THEN "id" ELSE IF i = 2 THEN "name" ELSE "extra"

\* database.rs:102-105  fetch_all(&self.pool).await? fails
SqlFetchErr ==
    /\ method = "execute_query" /\ dpc = "start"
    /\ sent' = Append(sent, <<"fetch_all", command>>)
    /\ Finish("ExecutionFailure")
    /\ UNCHANGED <<method, command, backend, cursor, columns, types, rows>>

\* database.rs:102-135  fetch_all succeeds: the columns of the first row, then
\* every row's values
SqlQuery ==
    /\ method = "execute_query" /\ dpc = "start"
    /\ sent' = Append(sent, <<"fetch_all", command>>)
    /\ LET fetched == backend.items
       IN  /\ columns' = IF fetched = <<>> THEN <<>>
                         ELSE [i \in 1..Len(fetched[1]) |-> ColumnName(i)]
           /\ types' = IF fetched = <<>> THEN <<>>
                       ELSE [i \in 1..Len(fetched[1]) |->
                               TypeDebug(fetched[1][i].type_name)]
           /\ rows' = [r \in 1..Len(fetched) |->
                         [i \in 1..Len(fetched[r]) |->
                             ConvertToJsonValue(fetched[r][i])]]
    /\ Finish("Ok")
    /\ UNCHANGED <<method, command, backend, cursor>>

\* the rows of one statement share its columns
InitSql ==
    /\ method = "execute_query"
    /\ command = "SELECT * FROM t"
    /\ \E w \in 1..MaxCols :
          \E fetched \in SeqsUpTo(SqlRowsOfWidth(w), MaxRows) :
              backend = Backend(fetched, "", "")

\* -------------------------------------------------------------------- redis
RedisTypes == {"string", "list", "hash", "set", "zset", "stream"}

RedisStrings == {"v", "w"}

\* a sorted-set score: finite, or an infinity
RedisScores == {[finite |-> TRUE, n |-> 1], [finite |-> FALSE, n |-> 0]}

\* what the read command of a key of type t replies
RedisReplies(t) ==
    CASE t = "string" -> SeqsUpTo(RedisStrings, 1)
      [] t \in {"list", "set"} -> SeqsUpTo(RedisStrings, MaxElems)
      [] t = "hash" -> SeqsUpTo({"f", "g"} \X RedisStrings, MaxElems)
      [] t = "zset" -> SeqsUpTo(RedisStrings \X RedisScores, MaxElems)
      [] OTHER -> {<<>>}

\* the read command get_value sends for a type tag
ReadCommand(t) ==
    CASE t = "string" -> "GET"
      [] t = "list" -> "LRANGE"
      [] t = "hash" -> "HGETALL"
      [] t = "set" -> "SMEMBERS"
      [] t = "zset" -> "ZRANGE"
      [] OTHER -> "none"

\* redis.rs:31, 97, 208  get_connection()? fails
RedisNoConnection ==
    /\ method \in {"list_keys", "get_value", "execute_redis_cmd"} /\ dpc = "start"
    /\ Finish("ExecutionFailure")
    /\ UNCHANGED <<method, command, backend, sent, cursor, columns, types, rows>>

\* redis.rs:99-102  TYPE key: the tag, or the query fails
GetValueType ==
    /\ method = "get_value" /\ dpc = "start"
    /\ sent' = Append(sent, <<"TYPE", command>>)
    /\ \/ dpc' = "read" /\ UNCHANGED outcome
       \/ Finish("ExecutionFailure")
    /\ UNCHANGED <<method, command, backend, cursor, columns, types, rows>>

\* redis.rs:106-109, 121-126, 143-146, 162-165, 178-184  the read command
\* fails, or its reply does not convert (GET of a key gone since TYPE)
GetValueReadErr ==
    /\ method = "get_value" /\ dpc = "read"
    /\ backend.key_type \in {"string", "list", "hash", "set", "zset"}
    /\ sent' = Append(sent, <<ReadCommand(backend.key_type), command>>)
    /\ Finish("ExecutionFailure")
    /\ UNCHANGED <<method, command, backend, cursor, columns, types, rows>>

\* redis.rs:189  Number::from_f64(score).unwrap() on a score that is not finite
GetValuePanic ==
    /\ method = "get_value" /\ dpc = "read"
    /\ backend.key_type = "zset"
    /\ \E i \in 1..Len(backend.items) : ~backend.items[i][2].finite
    /\ sent' = Append(sent, <<"ZRANGE", command>>)
    /\ Finish("Panic")
    /\ UNCHANGED <<method, command, backend, cursor, columns, types, rows>>

\* the index cell numbered from 0
IndexCellFromZero(i) == JNumber(i)

\* redis.rs:129-131  enumerate() counts from 0; the cell holds i + 1
IndexCell(i) == JNumber(i + 1)

\* redis.rs:104-204  the arm of the type tag builds the QueryRow
GetValueRead ==
    /\ method = "get_value" /\ dpc = "read"
    /\ LET t == backend.key_type
           got == backend.items
       IN  /\ t = "string" => Len(got) = 1
           /\ t = "zset" => \A i \in 1..Len(got) : got[i][2].finite
           /\ sent' = IF ReadCommand(t) = "none" THEN sent
                      ELSE Append(sent, <<ReadCommand(t), command>>)
           /\ columns' =
                 CASE t = "string" -> <<"key", "value">>
                   [] t = "list" -> <<"index", "value">>
                   [] t = "hash" -> <<"field", "value">>
                   [] t = "set" -> <<"member">>
                   [] t = "zset" -> <<"member", "score">>
                   [] OTHER -> <<"error">>
           /\ types' =
                 CASE t = "string" -> <<"String", "String">>
                   [] t = "list" -> <<"Int", "String">>
                   [] t = "hash" -> <<"String", "String">>
                   [] t = "set" -> <<"String">>
                   [] t = "zset" -> <<"String", "Double">>
                   [] OTHER -> <<"String">>
           /\ rows' =
                 CASE t = "string" -> <<<<JString(command), JString(got[1])>>>>
                   [] t = "list" ->
                        [i \in 1..Len(got) |-> <<IndexCell(i - 1), JString(got[i])>>]
                   [] t = "hash" ->
                        [i \in 1..Len(got) |->
                            <<JString(got[i][1]), JString(got[i][2])>>]
                   [] t = "set" -> [i \in 1..Len(got) |-> <<JString(got[i])>>]
                   [] t = "zset" ->
                        [i \in 1..Len(got) |->
                            <<JString(got[i][1]), JFloat(got[i][2].n)>>]
                   [] OTHER -> <<<<JString("Unsupported type: " \o t)>>>>
    /\ Finish("Ok")
    /\ UNCHANGED <<method, command, backend, cursor>>

RECURSIVE SplitWhitespace(_)
\* str::split_whitespace collected: the runs of characters other than spaces
SplitWhitespace(s) ==
    IF s = "" THEN <<>>
    ELSE IF StartsWith(s, " ") THEN SplitWhitespace(SubSeq(s, 2, Len(s)))
    ELSE LET sp == IndexOf(s, " ")
         IN  IF sp = 0 THEN <<s>>
             ELSE <<SubSeq(s, 1, sp - 1)>> \o SplitWhitespace(SubSeq(s, sp, Len(s)))

\* the command texts given to execute_redis_cmd
RedisTexts == {"SET k v", "  GET   k ", "LLEN k", "", "   "}

\* the kinds of reply a command gets; "Error" is an error reply
ReplyKinds == {"Okay", "Status", "Data", "Int", "Nil", "Bulk", "Error"}

\* redis.rs:210-216  no token in the text: Err("Empty command")
RedisCmdEmpty ==
    /\ method = "execute_redis_cmd" /\ dpc = "start"
    /\ SplitWhitespace(command) = <<>>
    /\ Finish("EmptyCommand")
    /\ UNCHANGED <<method, command, backend, sent, cursor, columns, types, rows>>

\* redis.rs:218-238  the tokens are sent; query::<String> gives the OK row for
\* a reply that converts to a String.  An integer reply converts in some
\* releases of the redis crate and not in others.
RedisCmdSend ==
    /\ method = "execute_redis_cmd" /\ dpc = "start"
    /\ SplitWhitespace(command) # <<>>
    /\ sent' = Append(sent, SplitWhitespace(command))
    /\ \/ /\ backend.reply \in {"Okay", "Status", "Data", "Int"}
          /\ columns' = <<"OK">>
          /\ types' = <<"String">>
          /\ rows' = <<<<JString("OK")>>>>
          /\ Finish("Ok")
       \/ /\ backend.reply \in {"Error", "Nil", "Bulk", "Int"}
          /\ Finish("ExecutionFailure")
          /\ UNCHANGED <<columns, types, rows>>
    /\ UNCHANGED <<method, command, backend, cursor>>

InitRedis ==
    \/ /\ method = "get_value"
       /\ command = "k"
       /\ \E t \in RedisTypes : \E got \in RedisReplies(t) :
             backend = Backend(got, t, "")
    \/ /\ method = "execute_redis_cmd"
       /\ command \in RedisTexts
       /\ \E r \in ReplyKinds : backend = Backend(<<>>, "", r)

\* Option<i64>
None == [some |-> FALSE]
Some(n) == [some |-> TRUE, n |-> n]

\* the keys the store holds when KEYS runs: name, type tag, size, and the TTL
\* reply of a live key (-1 without expiry, else the seconds left)
StoredKeys(name) ==
    {[key |-> name, key_type |-> t, size |-> 3, ttl |-> x] :
        t \in {"string", "hash", "stream"}, x \in {-1, 0, 7}}

KeyName(i) == IF i = 1 THEN "k1" ELSE IF i = 2 THEN "k2" ELSE "k3"

\* the keyspaces of at most n keys, in the order KEYS lists them
RECURSIVE KeySpaces(_)
KeySpaces(n) ==
    IF n = 0 THEN {<<>>}
    ELSE LET shorter == KeySpaces(n - 1)
         IN  shorter \cup
             {Append(q, k) : q \in {r \in shorter : Len(r) = n - 1},
                             k \in StoredKeys(KeyName(n))}

\* When a key stops existing (expired or deleted by another client), relative
\* to the three commands list_keys sends for it.
Gone == {"never", "before_type", "before_size", "before_ttl"}

\* TYPE key
TypeReply(k, gone) == IF gone = "before_type" THEN "none" ELSE k.key_type

\* STRLEN / LLEN / SCARD / ZCARD / HLEN key: 0 for a key that does not exist
SizeReply(k, gone) == IF gone \in {"before_type", "before_size"} THEN 0 ELSE k.size

\* TTL key: -2 for a key that does not exist
TtlReply(k, gone) == IF gone = "never" THEN k.ttl ELSE -2

\* redis.rs:46-83  the size command of a type tag
SizeCommand(t) ==
    CASE t = "string" -> "STRLEN"
      [] t = "list" -> "LLEN"
      [] t = "set" -> "SCARD"
      [] t = "zset" -> "ZCARD"
      [] t = "hash" -> "HLEN"
      [] OTHER -> "none"

\* redis.rs:90  if ttl == -1 { None } else { Some(ttl) }
TtlToOption(ttl) == IF ttl = -1 THEN None ELSE Some(ttl)

\* redis.rs:33-38  KEYS pattern: the keys, or the query fails
ListKeysEnumerate ==
    /\ method = "list_keys" /\ dpc = "start"
    /\ sent' = Append(sent, <<"KEYS", command>>)
    /\ \/ /\ cursor' = backend.items
          /\ dpc' = "keys"
          /\ UNCHANGED outcome
       \/ /\ Finish("ExecutionFailure")
          /\ UNCHANGED cursor
    /\ UNCHANGED <<method, command, backend, columns, types, rows, keyVars>>

\* redis.rs:40-91  one turn of for key in keys: TYPE, the size command of the
\* tag, TTL, and the entry pushed
ListKeysNext ==
    /\ method = "list_keys" /\ dpc = "keys"
    /\ cursor # <<>>
    /\ \E gone \in Gone :
          LET k == Head(cursor)
              key_type == TypeReply(k, gone)
              size == IF SizeCommand(key_type) = "none" THEN 0
                      ELSE SizeReply(k, gone)
              ttl == TtlReply(k, gone)
          IN  /\ sent' = sent \o <<<<"TYPE", k.key>>>>
                         \o (IF SizeCommand(key_type) = "none" THEN <<>>
                             ELSE <<<<SizeCommand(key_type), k.key>>>>)
                         \o <<<<"TTL", k.key>>>>
              /\ key_infos' = Append(key_infos,
                     [key |-> k.key, key_type |-> key_type, size |-> size,
                      ttl |-> TtlToOption(ttl)])
              /\ ttls' = Append(ttls, ttl)
    /\ cursor' = Tail(cursor)
    /\ UNCHANGED <<method, command, backend, dpc, columns, types, rows, outcome>>

\* redis.rs:41-88  one of the queries of a key fails
ListKeysErr ==
    /\ method = "list_keys" /\ dpc = "keys"
    /\ cursor # <<>>
    /\ Finish("ExecutionFailure")
    /\ UNCHANGED <<method, command, backend, sent, cursor, columns, types, rows,
                   keyVars>>

\* redis.rs:93  Ok(key_infos)
ListKeysDone ==
    /\ method = "list_keys" /\ dpc = "keys"
    /\ cursor = <<>>
    /\ Finish("Ok")
    /\ UNCHANGED <<method, command, backend, sent, cursor, columns, types, rows,
                   keyVars>>

InitListKeys ==
    /\ method = "list_keys"
    /\ command = "*"
    /\ \E ks \in KeySpaces(MaxKeys) : backend = Backend(ks, "", "")

\* ------------------------------------------------ the normalizers alone
\* BSON values of every kind convert_bson_value tells apart, a Double that is
\* not finite, a kind it has no arm for, and nested ones
BsonKinds ==
    LET scalars ==
            {[b |-> "Null"], [b |-> "Boolean", t |-> TRUE],
             [b |-> "Int32", n |-> 1], [b |-> "Int64", n |-> 2],
             [b |-> "Double", finite |-> TRUE, n |-> 3],
             [b |-> "Double", finite |-> FALSE, n |-> 0],
             [b |-> "String", s |-> "x"],
             [b |-> "ObjectId", hex |-> "65f0"],
             [b |-> "DateTime"], [b |-> "Binary"]}
    IN  scalars
        \cup {[b |-> "Array", items |-> q] : q \in SeqsUpTo(scalars, MaxElems)}
        \cup {[b |-> "Document", doc |-> <<<<"a", x>>>>] : x \in scalars}

\* the type names and the kinds of value sqlx's Any driver knows
SqlTypeNames ==
    {"NULL", "BOOLEAN", "SMALLINT", "INTEGER", "BIGINT", "REAL", "DOUBLE",
     "TEXT", "BLOB"}

SqlKinds ==
    {"Null", "Bool", "SmallInt", "Integer", "BigInt", "Real", "Double", "Text",
     "Blob"}

\* a column's declared type with a stored value of any kind (an embedded
\* engine types values, not columns); a Real or Double may be not finite
AnyCells ==
    {[type_name |-> t, kind |-> k, n |-> 1, s |-> "ann", finite |-> f] :
        t \in SqlTypeNames, k \in SqlKinds, f \in BOOLEAN}

\* mongodb.rs:156-171  convert_bson_value applied to one value
NormalizeBson ==
    /\ method = "convert_bson_value" /\ dpc = "start"
    /\ rows' = <<<<ConvertBsonValue(backend.items[1])>>>>
    /\ Finish("Ok")
    /\ UNCHANGED <<method, command, backend, sent, cursor, columns, types>>

\* database.rs:4-50  convert_to_json_value applied to one cell
NormalizeCell ==
    /\ method = "convert_to_json_value" /\ dpc = "start"
    /\ rows' = <<<<ConvertToJsonValue(backend.items[1])>>>>
    /\ Finish("Ok")
    /\ UNCHANGED <<method, command, backend, sent, cursor, columns, types>>

InitNormalize ==
    \/ /\ method = "convert_bson_value"
       /\ command = ""
       /\ \E v \in BsonKinds : backend = Backend(<<v>>, "", "")
    \/ /\ method = "convert_to_json_value"
       /\ command = ""
       /\ \E cell \in AnyCells : backend = Backend(<<cell>>, "", "")

\* no driver call is under way
DriverIdle ==
    /\ method = "none" /\ command = "" /\ dpc = "idle"
    /\ backend = Backend(<<>>, "", "") /\ sent = <<>>
    /\ cursor = <<>> /\ columns = <<>> /\ types = <<>> /\ rows = <<>>
    /\ outcome = "none"
    /\ key_infos = <<>> /\ ttls = <<>>

\* a driver method is entered with nothing built yet
DriverStart ==
    /\ dpc = "start" /\ sent = <<>>
    /\ cursor = <<>> /\ columns = <<>> /\ types = <<>> /\ rows = <<>>
    /\ outcome = "none"
    /\ key_infos = <<>> /\ ttls = <<>>

\* the documents matter to find alone; count() reads how many there are
InitMongo ==
    /\ method = "execute_mql"
    /\ command \in MqlTexts
    /\ \E docs \in SeqsUpTo(Documents, MaxDocs) :
          /\ (Len(SplitN2(command)) = 2 /\ StartsWith(MqlCommand(command), "find("))
             \/ \A i \in 1..Len(docs) : Len(docs[i]) = 1 /\ docs[i][1][2].b = "ObjectId"
          /\ backend = Backend(docs, "", "")

Init == InitRegistry /\ DriverIdle

\* the commands main.rs:233-240 registers, step by step; none of them is a
\* driver method's body
Next ==
    \E p \in Callers :
        \/ /\ \E op \in Ops, id \in Ids, t \in DbTypes \cup {"none"} :
                 /\ (op = "connect_database") = (t \in DbTypes)
                 /\ Invoke(p, op, id, t)
           /\ UNCHANGED drvVars
        \/ ConnectUnsupported(p) /\ UNCHANGED drvVars
        \/ ConnectFail(p) /\ UNCHANGED drvVars
        \/ ConnectOpen(p) /\ UNCHANGED drvVars
        \/ ConnectInsert(p) /\ UNCHANGED drvVars
        \/ Remove(p) /\ UNCHANGED drvVars
        \/ GetMissing(p) /\ UNCHANGED drvVars
        \/ GetFound(p) /\ UNCHANGED drvVars
        \/ DriverErr(p) /\ UNCHANGED drvVars
        \/ DriverOkQuery(p) /\ UNCHANGED drvVars
        \/ QueryResult(p) /\ UNCHANGED drvVars
        \/ DriverOk(p) /\ UNCHANGED drvVars

Spec == Init /\ [][Next]_vars

\* the steps of caller p that wait for the backend alone: the handshake of
\* connect and the awaited driver call return, with success or an error
BackendReturns(p) ==
    /\ \/ ConnectUnsupported(p)
       \/ ConnectFail(p)
       \/ ConnectOpen(p)
       \/ DriverErr(p)
       \/ DriverOkQuery(p)
       \/ QueryResult(p)
       \/ DriverOk(p)
    /\ UNCHANGED drvVars

\* the steps of caller p that begin with connections.lock().await
LockAcquired(p) ==
    /\ \/ ConnectInsert(p)
       \/ Remove(p)
       \/ GetMissing(p)
       \/ GetFound(p)
    /\ UNCHANGED drvVars

\* Spec where every backend call returns and the tokio Mutex, which serves
\* its waiters in turn, lets no waiter starve
SpecFair ==
    /\ Init /\ [][Next]_vars
    /\ \A p \in Callers : WF_vars(BackendReturns(p)) /\ SF_vars(LockAcquired(p))

InitDriver ==
    /\ InitRegistry
    /\ DriverStart
    /\ (InitSql \/ InitMongo \/ InitRedis \/ InitListKeys \/ InitNormalize)

\* one step of a driver method's body
NextDriver ==
    \/ SqlFetchErr /\ UNCHANGED <<regVars, keyVars>>
    \/ SqlQuery /\ UNCHANGED <<regVars, keyVars>>
    \/ MqlInvalid /\ UNCHANGED <<regVars, keyVars>>
    \/ MqlUnsupported /\ UNCHANGED <<regVars, keyVars>>
    \/ FindBadFilter /\ UNCHANGED <<regVars, keyVars>>
    \/ FindOpen /\ UNCHANGED <<regVars, keyVars>>
    \/ FindNext /\ UNCHANGED <<regVars, keyVars>>
    \/ FindCursorErr /\ UNCHANGED <<regVars, keyVars>>
    \/ FindDone /\ UNCHANGED <<regVars, keyVars>>
    \/ Count /\ UNCHANGED <<regVars, keyVars>>
    \/ RedisNoConnection /\ UNCHANGED <<regVars, keyVars>>
    \/ GetValueType /\ UNCHANGED <<regVars, keyVars>>
    \/ GetValueReadErr /\ UNCHANGED <<regVars, keyVars>>
    \/ GetValuePanic /\ UNCHANGED <<regVars, keyVars>>
    \/ GetValueRead /\ UNCHANGED <<regVars, keyVars>>
    \/ RedisCmdEmpty /\ UNCHANGED <<regVars, keyVars>>
    \/ RedisCmdSend /\ UNCHANGED <<regVars, keyVars>>
    \/ NormalizeBson /\ UNCHANGED <<regVars, keyVars>>
    \/ NormalizeCell /\ UNCHANGED <<regVars, keyVars>>
    \/ ListKeysEnumerate /\ UNCHANGED regVars
    \/ ListKeysNext /\ UNCHANGED regVars
    \/ ListKeysErr /\ UNCHANGED regVars
    \/ ListKeysDone /\ UNCHANGED regVars

SpecDriver == InitDriver /\ [][NextDriver]_vars

Done == 1..Len(history)

\* the call recorded at k had returned when the call recorded at j was invoked
Precedes(k, j) == k <= history[j].inv

\* the record of a call that changed, or may have changed, the entry of id
Mutates(r, id) ==
    /\ r.id = id
    /\ \/ r.op \in Removers
       \/ r.op = "connect_database" /\ r.res = "Ok"

ConnectedOk(r, id) == r.op = "connect_database" /\ r.id = id /\ r.res = "Ok"

\* calls in progress that will still write the entry of id
PendingWriters(id) ==
    {p \in InProgress : call[p].id = id /\ call[p].op \notin Commands}

\* calls in progress that have been handed a connection
Dispatched == {p \in Callers : pc[p] \in {"driver", "result"}}

LastRecord == history[Len(history)]

\* ---------------------------------------------------------------------- C2
\* C2: after two successful connects with the same identifier, the second
\* invoked after the first returned, no later command on that identifier runs
\* on the first connection; and while no other call writes that identifier's
\* entry from the second connect on, the entry is the second connection and
\* every later command is dispatched to it.
ReplaceOnReconnect ==
    \A k1 \in Done : \A k2 \in Done :
        (/\ ConnectedOk(history[k1], history[k2].id)
         /\ ConnectedOk(history[k2], history[k2].id)
         /\ Precedes(k1, k2))
        =>
        LET id == history[k2].id
            first == history[k1].conn
            second == history[k2].conn
            later == {j \in Done : /\ history[j].op \in Commands
                                   /\ history[j].id = id
                                   /\ Precedes(k2, j)}
            running == {p \in Dispatched : call[p].id = id /\ k2 <= call[p].inv}
            quiet == /\ \A j \in Done \ {k2} :
                            Mutates(history[j], id) => Precedes(j, k2)
                     /\ PendingWriters(id) = {}
        IN  /\ first # second
            /\ \A j \in later : history[j].conn # first
            /\ \A p \in running : call[p].conn.cid # first
            /\ quiet =>
                 /\ connections[id].cid = second
                 /\ \A j \in later : /\ history[j].conn = second
                                     /\ history[j].res \in {"Ok", "ExecutionFailure"}
                 /\ \A p \in running : call[p].conn.cid = second

\* two connects in sequence, then a command served by the second connection
ReplaceOnReconnectWitness ==
    /\ Len(history) = 3
    /\ ConnectedOk(history[1], 1) /\ ConnectedOk(history[2], 1)
    /\ Precedes(1, 2) /\ Precedes(2, 3)
    /\ history[3].op = "execute_query" /\ history[3].id = 1
    /\ history[3].res = "Ok" /\ history[3].conn = history[2].conn

\* ---------------------------------------------------------------------- C3
\* C3: for every identifier, at most one call is inside a driver invocation
\* on that identifier's connection.
OneCommandPerConnection ==
    \A p \in Callers : \A q \in Callers :
        (/\ p # q
         /\ pc[p] = "driver" /\ pc[q] = "driver")
        => call[p].id # call[q].id

\* a command waits for the lock while another runs on the same identifier
OneCommandPerConnectionWitness ==
    \E p \in Callers : \E q \in Callers :
        /\ pc[p] = "driver"
        /\ pc[q] = "lock" /\ call[q].op \in Commands
        /\ call[q].id = call[p].id

\* ---------------------------------------------------------------------- C4
\* C4: while a command on identifier A is inside its backend round trip, a
\* command or a disconnect on another identifier B is not held up by it: its
\* lock acquisition can complete.
CrossIdNeverBlocked ==
    \A p \in Callers : \A q \in Callers :
        (/\ pc[p] = "driver"
         /\ pc[q] = "lock"
         /\ call[q].id # call[p].id)
        => CanAcquire(q)

\* ---------------------------------------------------------------------- C5
\* the registry as identifier -> connection identity (0: no entry)
EntryIds == [i \in Ids |-> connections[i].cid]

\* the sequential registry: what a call may return in a registry state
SeqAllowed(r, reg) ==
    CASE r.op = "connect_database" ->
           r.res \in {"Ok", "UnsupportedBackend", "ConnectFailure"}
      [] r.op \in Removers -> r.res = "Ok"
      [] OTHER ->
           IF reg[r.id] = 0
           THEN r.res = "NotConnected"
           ELSE r.res \in {"Ok", "ExecutionFailure"} /\ r.conn = reg[r.id]

\* the sequential registry: the state a call leaves
SeqApply(r, reg) ==
    CASE r.op = "connect_database" /\ r.res = "Ok" -> [reg EXCEPT ![r.id] = r.conn]
      [] r.op \in Removers -> [reg EXCEPT ![r.id] = 0]
      [] OTHER -> reg

RECURSIVE Lin(_, _)
\* some order of the calls in todo that keeps the order of calls that did not
\* overlap, is allowed one call at a time from reg, and ends in the registry
Lin(todo, reg) ==
    IF todo = {}
    THEN reg = EntryIds
    ELSE \E k \in todo :
            /\ \A j \in todo : ~Precedes(j, k)
            /\ SeqAllowed(history[k], reg)
            /\ Lin(todo \ {k}, SeqApply(history[k], reg))

\* C5: the results returned and the registry equal those of a sequential
\* execution of the returned calls in which every call takes effect between
\* its invocation and its return.
Linearizable == Lin(Done, [i \in Ids |-> 0])

\* a connect, a disconnect and a command on one identifier, the command
\* overlapping the disconnect
LinearizableWitness ==
    /\ Len(history) = 3
    /\ \A k \in Done : history[k].id = 1
    /\ ConnectedOk(history[1], 1)
    /\ \E k \in {2, 3} : \E j \in {2, 3} :
          /\ k # j
          /\ history[k].op = "disconnect_database"
          /\ history[j].op = "execute_query"
          /\ ~Precedes(k, j) /\ ~Precedes(j, k)

\* ---------------------------------------------------------------------- C6
\* C6: a call that is executing a driver operation holds the registry lock
\* and runs on the connection that is the registry's entry for its identifier.
InsideAccessWindow ==
    \A p \in Callers :
        pc[p] = "driver" =>
            /\ lock = p
            /\ call[p].conn # NoConn
            /\ connections[call[p].id] = call[p].conn

\* a command in its driver call while a disconnect of its identifier waits
InsideAccessWindowWitness ==
    \E p \in Callers : \E q \in Callers :
        /\ pc[p] = "driver"
        /\ pc[q] = "lock" /\ call[q].op = "disconnect_database"
        /\ call[q].id = call[p].id

\* ---------------------------------------------------------------------- C7
\* every returned disconnect succeeded; once every connect of its identifier
\* had returned before it was invoked and none is in progress, the identifier
\* has no entry
DisconnectLeavesNoEntry ==
    \A k \in Done :
        history[k].op \in Removers =>
            /\ history[k].res = "Ok"
            /\ ((/\ \A j \in Done : history[j].op = "connect_database"
                                    /\ history[j].id = history[k].id
                                    => Precedes(j, k)
                 /\ \A p \in InProgress : ~(call[p].op = "connect_database"
                                            /\ call[p].id = history[k].id))
                => connections[history[k].id] = NoConn)

\* the step in which a disconnect returns removes its identifier's entry and
\* no other
DisconnectStep ==
    \A p \in Callers :
        (call[p].op \in Removers /\ pc[p] # "idle" /\ pc'[p] = "idle")
        => /\ connections'[call[p].id] = NoConn
           /\ \A i \in Ids \ {call[p].id} : connections'[i] = connections[i]

\* C7: disconnect returns success whether the identifier is live, unknown or
\* already removed; after it returns, with no connect on the identifier in
\* flight or issued later, the identifier has no entry; the entries of all
\* other identifiers are unchanged.
DisconnectIdempotent == []DisconnectLeavesNoEntry /\ [][DisconnectStep]_vars

\* identifier 1 disconnected twice in a row, identifier 2 live throughout
DisconnectIdempotentWitness ==
    /\ Len(history) = 3
    /\ ConnectedOk(history[1], 2)
    /\ history[2].op = "disconnect_database" /\ history[2].id = 1
    /\ history[3].op = "disconnect_database" /\ history[3].id = 1
    /\ history[2].res = "Ok" /\ history[3].res = "Ok"
    /\ Precedes(2, 3)
    /\ connections[1] = NoConn /\ connections[2] # NoConn

\* ---------------------------------------------------------------------- C8
\* a command that takes the lock while its identifier has no entry returns
\* NotConnected, enters no driver and leaves the registry as it is
UnknownIdStep ==
    \A p \in Callers :
        (/\ call[p].op \in Commands
         /\ pc[p] = "lock" /\ pc'[p] # "lock"
         /\ connections[call[p].id] = NoConn)
        => /\ pc'[p] = "idle"
           /\ history' = Append(history,
                  [op |-> call[p].op, id |-> call[p].id, res |-> "NotConnected",
                   conn |-> 0, inv |-> call[p].inv])
           /\ connections' = connections

\* a command on an identifier never connected, or disconnected before the
\* command was invoked and not connected since, returned NotConnected; and
\* NotConnected names no connection
UnknownIdResults ==
    \A k \in Done :
        history[k].op \in Commands =>
            LET id == history[k].id
                connects == {j \in 1..(k - 1) : ConnectedOk(history[j], id)}
            IN  /\ connects = {} => history[k].res = "NotConnected"
                /\ (\E d \in Done : /\ history[d].op \in Removers
                                    /\ history[d].id = id
                                    /\ Precedes(d, k)
                                    /\ \A j \in connects : j < d)
                   => history[k].res = "NotConnected"
                /\ history[k].res = "NotConnected" => history[k].conn = 0

\* C8: executeQuery, getSchema and executeDDL on an identifier with no
\* registry entry return NotConnected, invoke no driver and leave the
\* registry unchanged.
UnknownIdNotConnected == []UnknownIdResults /\ [][UnknownIdStep]_vars

\* a command on an identifier that was connected and then disconnected
UnknownIdNotConnectedWitness ==
    /\ Len(history) = 3
    /\ ConnectedOk(history[1], 1)
    /\ history[2].op = "disconnect_database" /\ history[2].id = 1
    /\ history[3].op = "get_schema" /\ history[3].id = 1
    /\ Precedes(2, 3)
    /\ history[3].res = "NotConnected"

\* ---------------------------------------------------------------------- C9
\* the step in which a connect returns: an error leaves the registry as it
\* is, success maps the identifier to the connection just opened; and an
\* entry appears or is replaced in no other step
ConnectStep ==
    /\ \A p \in Callers :
          (call[p].op = "connect_database" /\ pc[p] # "idle" /\ pc'[p] = "idle")
          => LET r == history'[Len(history')]
             IN  /\ r.op = "connect_database" /\ r.id = call[p].id
                 /\ (ConnVariant(call[p].dbtype) = "Unsupported"
                       => r.res = "UnsupportedBackend")
                 /\ IF r.res = "Ok"
                    THEN /\ call[p].conn # NoConn
                         /\ r.conn = call[p].conn.cid
                         /\ connections' =
                               [connections EXCEPT ![call[p].id] = call[p].conn]
                         /\ \A i \in Ids : connections[i] # call[p].conn
                    ELSE /\ r.res \in {"UnsupportedBackend", "ConnectFailure"}
                         /\ connections' = connections
    /\ \A i \in Ids :
          (connections'[i] # connections[i] /\ connections'[i] # NoConn)
          => \E p \in Callers : /\ call[p].op = "connect_database"
                                /\ call[p].id = i
                                /\ pc[p] = "lock" /\ pc'[p] = "idle"

\* C9: connect registers a connection exactly when it succeeds; on an
\* unsupported kind or a failed native connect it returns an error and the
\* registry is unchanged, a connection live under the identifier included.
ConnectRegistersOnSuccess == [][ConnectStep]_vars

\* a connect failed on an identifier whose earlier connection is still
\* registered and serves a command
ConnectRegistersOnSuccessWitness ==
    /\ Len(history) = 3
    /\ ConnectedOk(history[1], 1)
    /\ history[2].op = "connect_database" /\ history[2].id = 1
    /\ history[2].res = "ConnectFailure"
    /\ history[3].op = "execute_query" /\ history[3].id = 1
    /\ Precedes(2, 3)
    /\ history[3].res = "Ok" /\ history[3].conn = history[1].conn
    /\ connections[1].cid = history[1].conn

\* --------------------------------------------------------------------- C10
\* the step in which a command returns an error from its driver leaves every
\* entry as it is, the command's connection still registered, and the lock free
FailedCommandStep ==
    \A p \in Callers :
        (pc[p] = "driver" /\ pc'[p] = "idle"
         /\ history'[Len(history')].res = "ExecutionFailure")
        => /\ connections' = connections
           /\ connections'[call[p].id] = call[p].conn
           /\ lock' = NoHolder

\* after a failed command, while no call writes the identifier's entry, the
\* entry is the connection the command ran on and later commands run on it
FailedCommandKeepsEntry ==
    \A k \in Done :
        (/\ history[k].op \in Commands
         /\ history[k].res = "ExecutionFailure"
         /\ \A j \in Done : Mutates(history[j], history[k].id) => j < k
         /\ PendingWriters(history[k].id) = {})
        => /\ connections[history[k].id].cid = history[k].conn
           /\ \A j \in Done : (/\ j > k
                               /\ history[j].op \in Commands
                               /\ history[j].id = history[k].id)
                              => history[j].conn = history[k].conn

\* C10: a command that returns an error leaves the registry holding the same
\* connection for its identifier and every other entry unchanged, and the
\* lock released, so that a following command is dispatched to that connection.
FailedCommandKeepsConnection ==
    []FailedCommandKeepsEntry /\ [][FailedCommandStep]_vars

\* a command failed and the next command on the identifier ran on the same
\* connection
FailedCommandKeepsConnectionWitness ==
    /\ Len(history) = 3
    /\ ConnectedOk(history[1], 1)
    /\ history[2].op = "execute_ddl" /\ history[2].id = 1
    /\ history[2].res = "ExecutionFailure"
    /\ history[3].op = "execute_query" /\ history[3].id = 1
    /\ Precedes(2, 3)
    /\ history[3].res = "Ok" /\ history[3].conn = history[1].conn

\* --------------------------------------------------------------------- C11
\* C11: in the list list_keys returns, every expiry is the absent marker or
\* a number of seconds that is not negative; a TTL reply of -1 (no expiry)
\* gives the absent marker and a reply of N seconds gives exactly N.
TtlSentinelMapped ==
    (method = "list_keys" /\ outcome = "Ok") =>
        \A i \in 1..Len(key_infos) :
            /\ key_infos[i].ttl = None \/ key_infos[i].ttl.n >= 0
            /\ ttls[i] = -1 => key_infos[i].ttl = None
            /\ ttls[i] >= 0 => key_infos[i].ttl = Some(ttls[i])

\* --------------------------------------------------------------------- C12
\* a find has opened its cursor and is iterating, or has returned its result
FindIssued == \E i \in 1..Len(sent) : sent[i][1] = "find"
FindRunning == method = "execute_mql" /\ dpc = "find"
FindReturned == method = "execute_mql" /\ FindIssued /\ outcome = "Ok"

\* the documents the loop has consumed so far
Consumed == SubSeq(backend.items, 1, Len(rows))

RECURSIVE KeysSeen(_)
\* the keys other than "_id" of the documents docs, in the order the cursor
\* and each document present them, with repetitions
KeysSeen(docs) ==
    IF docs = <<>> THEN <<>>
    ELSE KeysSeen(SubSeq(docs, 1, Len(docs) - 1)) \o
         LET d == docs[Len(docs)]
             keep == {i \in 1..Len(d) : d[i][1] # "_id"}
             nth(m) == CHOOSE i \in keep : Cardinality({j \in keep : j < i}) = m - 1
         IN  [m \in 1..Cardinality(keep) |-> d[nth(m)][1]]

\* the position at which key is first observed
FirstSeenAt(seen, key) ==
    CHOOSE i \in 1..Len(seen) : seen[i] = key /\ \A j \in 1..(i - 1) : seen[j] # key

\* "_id" is column 0; every other observed key is a column exactly once, in
\* the order of first observation; types keeps step with columns
ColumnsInFirstSeenOrder ==
    LET seen == KeysSeen(Consumed)
    IN  /\ Len(columns) >= 1 /\ columns[1] = "_id"
        /\ Len(types) = Len(columns)
        /\ \A i, j \in 1..Len(columns) : columns[i] = columns[j] => i = j
        /\ {columns[i] : i \in 2..Len(columns)} = {seen[i] : i \in 1..Len(seen)}
        /\ \A i, j \in 2..Len(columns) :
              i < j => FirstSeenAt(seen, columns[i]) < FirstSeenAt(seen, columns[j])

\* one turn of the loop only appends to columns and types
ColumnsOnlyAppended ==
    (FindRunning /\ dpc' = "find") =>
        /\ Len(columns') >= Len(columns)
        /\ SubSeq(columns', 1, Len(columns)) = columns
        /\ SubSeq(types', 1, Len(types)) = types

\* a find that matched nothing returns ["_id"] and no row
EmptyFindShape ==
    (FindReturned /\ backend.items = <<>>) => columns = <<"_id">> /\ rows = <<>>

\* C12: while a find iterates its cursor the column list only grows by
\* appending; "_id" is column 0; each other key stands once, at the place of
\* its first observation; types grows in step; a find over no document
\* returns columns ["_id"] and zero rows.
FindAccretionMonotonic ==
    /\ []((FindRunning \/ FindReturned) => ColumnsInFirstSeenOrder)
    /\ []EmptyFindShape
    /\ [][ColumnsOnlyAppended]_vars

\* a find returned after a first document with key b and a second that
\* repeats b and introduces a
FindAccretionMonotonicWitness ==
    /\ FindReturned
    /\ columns = <<"_id", "b", "a">>
    /\ Len(rows) = 2 /\ Len(backend.items[2]) = 3
    /\ backend.items[2][2][1] = "a" /\ backend.items[2][3][1] = "b"

\* --------------------------------------------------------------------- C13
\* the value a stored document holds under key, normalized; generic null
\* when the document has no such key
CellOf(doc, key) ==
    IF \E i \in 1..Len(doc) : doc[i][1] = key
    THEN ConvertBsonValue((CHOOSE p \in {doc[i] : i \in 1..Len(doc)} : p[1] = key)[2])
    ELSE JNull

\* C13: in the result of a find every row has a cell for every column of the
\* final column list, holding the normalized value of the row's document for
\* that column's key, or generic null when the document lacks the key; rows
\* built before a column was first seen included.
FindRowsCoverFinalColumns ==
    FindReturned =>
        \A r \in 1..Len(rows) :
            /\ Len(rows[r]) = Len(columns)
            /\ \A k \in 1..Len(columns) :
                  rows[r][k] = CellOf(backend.items[r], columns[k])

\* --------------------------------------------------------------------- C14
\* execute_mql has returned
MqlReturned == method = "execute_mql" /\ dpc = "done"

\* the command text has a "."
HasDot == \E i \in 1..Len(command) : SubSeq(command, i, i) = "."

\* what follows the first "." of the command text, leading spaces aside
Operation ==
    LET first == CHOOSE i \in 1..Len(command) :
                    /\ SubSeq(command, i, i) = "."
                    /\ \A j \in 1..(i - 1) : SubSeq(command, j, j) # "."
    IN  TrimStart(SubSeq(command, first + 1, Len(command)))

\* C14: the command text is split at its first "." only; without a "." the
\* call is rejected as malformed; an operation that is neither find( nor
\* count() is rejected as unsupported; neither rejection sends a find or a
\* count to the backend; count() returns one column and one row holding the
\* number of documents of the collection.
MqlRouting ==
    MqlReturned =>
        /\ ~HasDot => outcome = "InvalidFormat"
        /\ outcome = "InvalidFormat" => ~HasDot /\ sent = <<>>
        /\ (HasDot /\ ~StartsWith(Operation, "find(")
                   /\ ~StartsWith(Operation, "count()")) => outcome = "Unsupported"
        /\ outcome = "Unsupported" =>
              /\ HasDot
              /\ ~StartsWith(Operation, "find(") /\ ~StartsWith(Operation, "count()")
              /\ sent = <<>>
        /\ (HasDot /\ StartsWith(Operation, "count()")) =>
              /\ sent = <<<<"count_documents", "{}">>>>
              /\ outcome = "Ok" =>
                    /\ Len(columns) = 1 /\ Len(rows) = 1
                    /\ rows[1] = <<JNumber(Len(backend.items))>>

\* a text with two "." was routed by its first one and rejected
MqlRoutingWitness ==
    /\ MqlReturned
    /\ command = "db.users.count()"
    /\ Len(backend.items) = 2
    /\ outcome = "Unsupported" /\ sent = <<>>

\* --------------------------------------------------------------------- C15
\* execute_redis_cmd has returned
RedisCmdReturned == method = "execute_redis_cmd" /\ dpc = "done"

\* the whitespace tokens of the command texts, written out
TokensOf(text) ==
    CASE text = "SET k v" -> <<"SET", "k", "v">>
      [] text = "  GET   k " -> <<"GET", "k">>
      [] text = "LLEN k" -> <<"LLEN", "k">>
      [] OTHER -> <<>>

\* C15: the text is tokenized on whitespace and sent as name and arguments in
\* order; a text without a token is an error and nothing is sent; a command
\* the store executes, whatever the kind of its reply, gives one column and
\* one row holding "OK"; an error comes back only for an error reply.
RedisCmdOkForEveryReply ==
    RedisCmdReturned =>
        /\ TokensOf(command) = <<>> => outcome # "Ok" /\ sent = <<>>
        /\ sent # <<>> => sent = <<TokensOf(command)>>
        /\ (sent # <<>> /\ backend.reply # "Error") =>
              /\ outcome = "Ok"
              /\ columns = <<"OK">> /\ rows = <<<<JString("OK")>>>>
        /\ (sent # <<>> /\ outcome # "Ok") => backend.reply = "Error"

\* --------------------------------------------------------------------- C16
\* the kinds of generic value
JsonKinds == {"Null", "Bool", "Number", "String", "Array", "Object"}

\* C16: normalization is total: whatever the declared type and the native
\* value (a relational cell, a BSON value, a typed key-value reply, a score
\* of a sorted set that is an infinity included), it gives a generic value
\* and the call is never aborted.
NormalizationTotal ==
    /\ outcome # "Panic"
    /\ (method \in {"convert_bson_value", "convert_to_json_value"} /\ dpc = "done")
          => rows[1][1].j \in JsonKinds

\* --------------------------------------------------------------------- C17
\* convert_to_json_value has been applied to one cell
CellNormalized == method = "convert_to_json_value" /\ dpc = "done"

\* C17: the relational normalizer follows the rules in their order: a NULL
\* cell gives generic null whatever the declared type and no other cell gives
\* null; then a boolean type gives a boolean, an integer type an integer, a
\* floating type a double (a string when the value is not finite), a text
\* type the cell's text, and anything else a string.
RelationalRulesInOrder ==
    CellNormalized =>
        LET cell == backend.items[1]
            v == rows[1][1]
        IN  /\ cell.kind = "Null" => v = JNull
            /\ cell.kind # "Null" => v # JNull
            /\ (cell.type_name = "BOOLEAN" /\ cell.kind = "Bool") => v.j = "Bool"
            /\ (/\ cell.type_name \in {"SMALLINT", "INTEGER", "BIGINT"}
                /\ cell.kind \in {"SmallInt", "Integer", "BigInt"}) => v = JNumber(cell.n)
            /\ (/\ cell.type_name \in {"REAL", "DOUBLE"}
                /\ cell.kind \in {"Real", "Double"}) =>
                  IF cell.finite THEN v = JFloat(cell.n) ELSE v.j = "String"
            /\ (cell.type_name = "TEXT" /\ cell.kind = "Text") => v = JString(cell.s)
            /\ (cell.type_name \in {"NULL", "BLOB"} /\ cell.kind # "Null") =>
                  v.j = "String"

\* --------------------------------------------------------------------- C18
\* get_value has returned a result
GetValueReturned == method = "get_value" /\ outcome = "Ok"

LockFreedAndCallsReturn ==
    /\ [](InProgress = {} => lock = NoHolder)
    /\ \A p \in Callers : (pc[p] # "idle") ~> (pc[p] = "idle")

\* all is quiet after a command failed in its driver and another found no
\* connection
LockFreedAndCallsReturnWitness ==
    /\ InProgress = {} /\ lock = NoHolder
    /\ Len(history) = MaxCalls
    /\ \E i \in Done : history[i].res = "ExecutionFailure"
    /\ \E i \in Done : history[i].res = "NotConnected"

====
